---- MODULE Spec2Model ----
(***************************************************************************)
(* Model of optional.h: DEFINE_OPTIONAL_T(K, NAME) and its pre-built       *)
(* instantiation DEFINE_OPTIONAL_T(void *, generic).                       *)
(*                                                                         *)
(* Two specifications drive the four generated functions:                  *)
(*   Spec      a single-threaded client holding a few optional_generic_t   *)
(*             objects, calling empty / some / is_empty / unwrap on them;  *)
(*   SpecConc  several threads calling is_empty / unwrap on one shared     *)
(*             object, with the by-value argument copy read field by field.*)
(* FairSpec is Spec plus the fairness of straight-line code: once unwrap   *)
(* has reached puts or exit, that statement is executed.                   *)
(***************************************************************************)
EXTENDS Integers, Sequences, FiniteSets, TLC

VARIABLES
    slots,    \* the client's optional_generic_t objects: slot -> struct
    built,    \* how each object was last constructed: Empty or Present(v)
    pc,       \* the process: "idle", inside unwrap at "puts" / "exit", "terminated"
    out,      \* the lines written to stdout
    status,   \* <<>> while the process runs, <<code>> once it has exited
    last,     \* the most recent call: its function, its object, what it returned
    ncalls,   \* number of calls made so far
    threads   \* SpecConc: each thread's position, argument copy and result

vars == <<slots, built, pc, out, status, last, ncalls, threads>>

\* ------------------------------------------------------------------ bounds
NumSlots == 2
MaxPtr == 2
MaxCalls == 4
NumThreads == 2
MaxThreadCalls == 2

\* ------------------------------------------------------------- the types
\* (K){0} for K = void *: the null pointer.
NULL == 0

\* The values of K = void *: the null pointer and MaxPtr distinct addresses.
Pointers == NULL .. MaxPtr

\* Values an int may hold; what an uninitialised has_value may contain.
IntVals == {-1, 0, 1, 2}

\* typedef struct { K value; int has_value; } optional_generic_t
optional_generic_t == [value : Pointers, has_value : IntVals]

Slots == 1 .. NumSlots
Threads == 1 .. NumThreads

\* The argument of exit() on the fatal path.
ExitStatus == 1

\* The line unwrap hands to puts.
Diagnostic == "Error: Attempted to unwrap an optional with no value."

\* ---------------------------------------------------------- the functions
\* opt is the function's local `optional_generic_t opt;`, uninitialised when
\* declared: the callers below draw it from every value of the struct.

empty_value_left_unset(opt) == [opt EXCEPT !.has_value = 0]

optional_generic_empty(opt) == [opt EXCEPT !.value = NULL, !.has_value = 0]

some_validates_pointer(opt, value) ==
    [opt EXCEPT !.value = value, !.has_value = IF value = NULL THEN 0 ELSE 1]

optional_generic_some(opt, value) == [opt EXCEPT !.value = value, !.has_value = 1]

BitNot(x) == (-x) - 1

\* C's logical negation of an int: `!x`.
Not(x) == IF x = 0 THEN 1 ELSE 0

optional_generic_is_empty(opt) == Not(opt.has_value)

\* unwrap's branch: <<v>> when it returns v, <<>> when control falls through
\* to puts and exit.
unwrap_tests_value(opt) == IF opt.value # NULL THEN <<opt.value>> ELSE <<>>

unwrap_unchecked(opt) == <<opt.value>>

unwrap_inverted_test(opt) == IF opt.has_value = 0 THEN <<opt.value>> ELSE <<>>

optional_generic_unwrap(opt) == IF opt.has_value # 0 THEN <<opt.value>> ELSE <<>>

\* puts appends one line to the stream.
puts_nothing(stream, s) == stream

puts(stream, s) == Append(stream, s)

\* `x = f(...)` / `x = y`: the struct is returned and assigned by value, into
\* the object s alone.
AssignShared(mem, s, o) == [t \in (DOMAIN mem) \cup {s} |-> o]

Assign(mem, s, o) == (s :> o) @@ mem

\* The caller's objects after is_empty / unwrap was handed mem[s]: the
\* parameter is `const optional_generic_t opt`, a copy, so the callee has no
\* access to the caller's object.
TakeByPointer(mem, s) == [mem EXCEPT ![s].has_value = 0]

MoveByPointer(mem, s) == [mem EXCEPT ![s].value = NULL]

ByValue(mem, s) == mem

\* ------------------------------------------------------------ bookkeeping
Empty == [st |-> "Empty", v |-> NULL]
Present(v) == [st |-> "Present", v |-> v]

NoCall == [op |-> "none", slot |-> 0, ret |-> <<>>]

ZeroOpt == [value |-> NULL, has_value |-> 0]

IdleThread ==
    [pc |-> "idle", op |-> "none", opt |-> ZeroOpt, copied |-> {}, ret |-> <<>>, n |-> 0]

\* ------------------------------------------------- Spec: one client thread
Init ==
    /\ slots = [s \in {} |-> ZeroOpt]
    /\ built = [s \in {} |-> Empty]
    /\ pc = "idle"
    /\ out = <<>>
    /\ status = <<>>
    /\ last = NoCall
    /\ ncalls = 0
    /\ threads = [t \in Threads |-> IdleThread]

CanCall == pc = "idle" /\ ncalls < MaxCalls

\* slots[s] = optional_generic_empty();
CallEmpty(s) ==
    /\ CanCall
    /\ \E g \in optional_generic_t :
         LET o == optional_generic_empty(g) IN
         /\ slots' = Assign(slots, s, o)
         /\ last' = [op |-> "empty", slot |-> s, ret |-> <<o>>]
    /\ built' = (s :> Empty) @@ built
    /\ ncalls' = ncalls + 1
    /\ UNCHANGED <<pc, out, status, threads>>

\* slots[s] = optional_generic_some(v);
CallSome(s, v) ==
    /\ CanCall
    /\ \E g \in optional_generic_t :
         LET o == optional_generic_some(g, v) IN
         /\ slots' = Assign(slots, s, o)
         /\ last' = [op |-> "some", slot |-> s, ret |-> <<o>>]
    /\ built' = (s :> Present(v)) @@ built
    /\ ncalls' = ncalls + 1
    /\ UNCHANGED <<pc, out, status, threads>>

\* slots[t] = slots[s];  (struct assignment)
CallCopy(s, t) ==
    /\ CanCall
    /\ s \in DOMAIN slots
    /\ s # t
    /\ slots' = Assign(slots, t, slots[s])
    /\ built' = (t :> built[s]) @@ built
    /\ last' = [op |-> "copy", slot |-> t, ret |-> <<>>]
    /\ ncalls' = ncalls + 1
    /\ UNCHANGED <<pc, out, status, threads>>

\* optional_generic_is_empty(slots[s]);
CallIsEmpty(s) ==
    /\ CanCall
    /\ s \in DOMAIN slots
    /\ last' = [op |-> "is_empty", slot |-> s,
                ret |-> <<optional_generic_is_empty(slots[s])>>]
    /\ slots' = ByValue(slots, s)
    /\ ncalls' = ncalls + 1
    /\ UNCHANGED <<built, pc, out, status, threads>>

\* optional_generic_unwrap(slots[s]); up to the return or to the puts.
CallUnwrap(s) ==
    /\ CanCall
    /\ s \in DOMAIN slots
    /\ LET r == optional_generic_unwrap(slots[s]) IN
         /\ last' = [op |-> "unwrap", slot |-> s, ret |-> r]
         /\ pc' = IF Len(r) > 0 THEN "idle" ELSE "puts"
    /\ slots' = ByValue(slots, s)
    /\ ncalls' = ncalls + 1
    /\ UNCHANGED <<built, out, status, threads>>

\* puts("Error: Attempted to unwrap an optional with no value.");
UnwrapPuts ==
    /\ pc = "puts"
    /\ out' = puts(out, Diagnostic)
    /\ pc' = "exit"
    /\ UNCHANGED <<slots, built, status, last, ncalls, threads>>

\* exit(1);
UnwrapExit ==
    /\ pc = "exit"
    /\ status' = <<ExitStatus>>
    /\ pc' = "terminated"
    /\ UNCHANGED <<slots, built, out, last, ncalls, threads>>

Next ==
    \/ \E s \in Slots : CallEmpty(s)
    \/ \E s \in Slots, v \in Pointers : CallSome(s, v)
    \/ \E s \in Slots, t \in Slots : CallCopy(s, t)
    \/ \E s \in Slots : CallIsEmpty(s)
    \/ \E s \in Slots : CallUnwrap(s)
    \/ UnwrapPuts
    \/ UnwrapExit

Spec == Init /\ [][Next]_vars

FairSpec == Spec /\ WF_vars(UnwrapPuts) /\ WF_vars(UnwrapExit)

\* ------------------------------------- SpecConc: threads sharing slots[1]
\* The main thread has constructed slots[1], by empty() or by some(v), before
\* it starts the reader threads.
InitConc ==
    /\ \E g \in optional_generic_t :
         \/ /\ slots = (1 :> optional_generic_empty(g))
            /\ built = (1 :> Empty)
         \/ \E v \in Pointers :
              /\ slots = (1 :> optional_generic_some(g, v))
              /\ built = (1 :> Present(v))
    /\ pc = "idle"
    /\ out = <<>>
    /\ status = <<>>
    /\ last = NoCall
    /\ ncalls = 0
    /\ threads = [t \in Threads |-> IdleThread]

Fields == {"value", "has_value"}

\* Thread t starts optional_generic_is_empty(slots[1]) or
\* optional_generic_unwrap(slots[1]).
TCall(t, op) ==
    /\ pc # "terminated"
    /\ threads[t].pc = "idle"
    /\ threads[t].n < MaxThreadCalls
    /\ threads' = [threads EXCEPT ![t] =
                     [pc |-> "copy", op |-> op, opt |-> ZeroOpt, copied |-> {},
                      ret |-> <<>>, n |-> @.n + 1]]
    /\ UNCHANGED <<slots, built, pc, out, status, last, ncalls>>

\* The argument is passed by value: the struct is read from the shared object
\* one field at a time, in either order, with no lock held.
TCopy(t, f) ==
    /\ pc # "terminated"
    /\ threads[t].pc = "copy"
    /\ f \notin threads[t].copied
    /\ threads' = [threads EXCEPT
                     ![t].opt = [@ EXCEPT ![f] = slots[1][f]],
                     ![t].copied = @ \cup {f},
                     ![t].pc = IF threads[t].copied \cup {f} = Fields
                               THEN "body" ELSE "copy"]
    /\ UNCHANGED <<slots, built, pc, out, status, last, ncalls>>

\* The function body, on the thread's own copy of the argument.
TBody(t) ==
    /\ pc # "terminated"
    /\ threads[t].pc = "body"
    /\ IF threads[t].op = "is_empty"
       THEN threads' = [threads EXCEPT
                          ![t].ret = <<optional_generic_is_empty(threads[t].opt)>>,
                          ![t].pc = "idle"]
       ELSE LET r == optional_generic_unwrap(threads[t].opt) IN
            threads' = [threads EXCEPT
                          ![t].ret = r,
                          ![t].pc = IF Len(r) > 0 THEN "idle" ELSE "puts"]
    /\ slots' = ByValue(slots, 1)
    /\ UNCHANGED <<built, pc, out, status, last, ncalls>>

\* puts(...) in thread t.
TPuts(t) ==
    /\ pc # "terminated"
    /\ threads[t].pc = "puts"
    /\ out' = puts(out, Diagnostic)
    /\ threads' = [threads EXCEPT ![t].pc = "exit"]
    /\ UNCHANGED <<slots, built, pc, status, last, ncalls>>

\* exit(1) in thread t ends the whole process.
TExit(t) ==
    /\ pc # "terminated"
    /\ threads[t].pc = "exit"
    /\ status' = <<ExitStatus>>
    /\ pc' = "terminated"
    /\ UNCHANGED <<slots, built, out, last, ncalls, threads>>

NextConc ==
    \/ \E t \in Threads, op \in {"is_empty", "unwrap"} : TCall(t, op)
    \/ \E t \in Threads, f \in Fields : TCopy(t, f)
    \/ \E t \in Threads : TBody(t)
    \/ \E t \in Threads : TPuts(t)
    \/ \E t \in Threads : TExit(t)

SpecConc == InitConc /\ [][NextConc]_vars

\* ------------------------------------------------------------ the claims
\* The call the most recent step of Spec made, if it made one.
CallStep == ncalls' = ncalls + 1

LastIs(op) == last.op = op /\ last.slot \in DOMAIN built

\* C1: round trip. Whenever the most recent call is unwrap on an object that
\* was constructed by some(v), for any v including the null pointer, the call
\* returned exactly v and the process is still running.
C1_RoundTrip ==
    (LastIs("unwrap") /\ built[last.slot].st = "Present")
        => /\ last.ret = <<built[last.slot].v>>
           /\ pc = "idle"
           /\ status = <<>>

C1_Witness ==
    /\ LastIs("unwrap")
    /\ built[last.slot] = Present(NULL)
    /\ last.ret = <<NULL>>
    /\ pc = "idle"

\* C2: is_empty reports how the object was constructed: it returns true (1)
\* on an object made by empty() and false (0) on an object made by some(v),
\* for every v, the null pointer included.
C2_IsEmptyReportsConstruction ==
    LastIs("is_empty")
        => last.ret = <<IF built[last.slot].st = "Empty" THEN 1 ELSE 0>>

C2_Witness ==
    /\ LastIs("is_empty")
    /\ built[last.slot] = Present(NULL)
    /\ last.ret = <<0>>

\* C3: unwrap on an empty object is fatal. The call returns nothing to its
\* caller (not the zero placeholder, not a default), the process is on the
\* fatal path from then on, and it ends terminated with a non-zero status.
UnwrapOfEmpty == LastIs("unwrap") /\ built[last.slot].st = "Empty"

C3_NoReturn ==
    UnwrapOfEmpty
        => /\ last.ret = <<>>
           /\ pc \in {"puts", "exit", "terminated"}
           /\ (pc = "terminated" => (Len(status) = 1 /\ status[1] # 0))

C3_FatalUnwrap ==
    /\ []C3_NoReturn
    /\ UnwrapOfEmpty ~> (pc = "terminated" /\ Len(status) = 1 /\ status[1] # 0)

C3_Witness ==
    /\ UnwrapOfEmpty
    /\ pc = "terminated"
    /\ status = <<1>>
    /\ last.ret = <<>>

\* C4: on the fatal path the diagnostic comes first. Nothing is written while
\* the process is idle or about to call puts; from the moment unwrap is about
\* to call exit, and in the terminated process, the output is the diagnostic
\* line, once; a terminated process was terminated by unwrap.
C4_DiagnosticBeforeExit ==
    /\ pc \in {"idle", "puts"} => out = <<>>
    /\ pc \in {"exit", "terminated"} => out = <<Diagnostic>>
    /\ pc = "terminated" => last.op = "unwrap"

C4_Witness ==
    /\ pc = "terminated"
    /\ out = <<Diagnostic>>
    /\ last.op = "unwrap"

\* C5: single failure mode. A call enters the fatal path exactly when it is
\* unwrap on an object whose has_value is 0; every other call returns and
\* leaves the output and the exit status alone; output and termination happen
\* only inside such an unwrap; and unwrap returns a value whenever is_empty
\* of the same object is false.
C5_Step ==
    /\ CallStep =>
         /\ (pc' # "idle") <=> (last'.op = "unwrap" /\ slots[last'.slot].has_value = 0)
         /\ (pc' = "idle") => (out' = out /\ status' = status)
         /\ (pc' # "idle") => (pc' = "puts" /\ out' = out /\ status' = status)
         /\ (last'.op = "unwrap" /\ optional_generic_is_empty(slots[last'.slot]) = 0)
                => (pc' = "idle" /\ Len(last'.ret) = 1)
    /\ (out' # out \/ status' # status \/ (pc' = "terminated" /\ pc # "terminated"))
         => /\ ~CallStep
            /\ last.op = "unwrap"
            /\ slots[last.slot].has_value = 0

C5_SingleFailureMode == [][C5_Step]_vars

C5_Witness ==
    /\ pc = "terminated"
    /\ last.op = "unwrap"
    /\ slots[last.slot].has_value = 0
    /\ ncalls > 1

\* C6: immutability. is_empty and unwrap leave every object as it was, and
\* every object is in the state it was constructed in: Present(v) holds v
\* with the flag set, Empty has the flag clear.
AsBuilt(s) ==
    IF built[s].st = "Present"
    THEN slots[s] = [value |-> built[s].v, has_value |-> 1]
    ELSE slots[s].has_value = 0

C6_StateAsBuilt == DOMAIN slots = DOMAIN built /\ \A s \in DOMAIN slots : AsBuilt(s)

C6_Immutable ==
    /\ []C6_StateAsBuilt
    /\ [][(CallStep /\ last'.op \in {"is_empty", "unwrap"}) => slots' = slots]_vars

C6_Witness ==
    /\ LastIs("unwrap")
    /\ ncalls = MaxCalls
    /\ built[last.slot].st = "Present"
    /\ slots[last.slot] = [value |-> built[last.slot].v, has_value |-> 1]

\* C7: concurrent readers. With the shared object constructed present with v,
\* under every interleaving of the threads' unlocked reads each completed
\* is_empty returned false, each completed unwrap returned v, no thread is on
\* the fatal path, and the shared object is as constructed.
C7_ConcurrentReaders ==
    built[1].st = "Present"
        => /\ slots[1] = [value |-> built[1].v, has_value |-> 1]
           /\ pc = "idle"
           /\ out = <<>>
           /\ \A t \in Threads :
                /\ threads[t].pc \notin {"puts", "exit"}
                /\ (threads[t].pc = "idle" /\ threads[t].op = "is_empty")
                       => threads[t].ret = <<0>>
                /\ (threads[t].pc = "idle" /\ threads[t].op = "unwrap")
                       => threads[t].ret = <<built[1].v>>

C7_Witness ==
    /\ built[1] = Present(MaxPtr)
    /\ threads[1].pc = "idle" /\ threads[1].op = "unwrap"
    /\ threads[1].ret = <<MaxPtr>>
    /\ threads[2].pc = "idle" /\ threads[2].op = "is_empty"
    /\ threads[2].ret = <<0>>
    /\ threads[1].n = MaxThreadCalls

\* C8: no aliasing. A call that constructs, copies into or overwrites one
\* object leaves every other object, and so its is_empty and unwrap results,
\* unchanged.
C8_Step ==
    CallStep =>
        \A t \in DOMAIN slots :
            t # last'.slot
                => /\ t \in DOMAIN slots'
                   /\ slots'[t] = slots[t]
                   /\ optional_generic_is_empty(slots'[t]) = optional_generic_is_empty(slots[t])
                   /\ optional_generic_unwrap(slots'[t]) = optional_generic_unwrap(slots[t])

C8_NoAliasing == [][C8_Step]_vars

C8_Witness ==
    /\ DOMAIN slots = Slots
    /\ last.op = "empty"
    /\ last.slot = 1
    /\ slots[1].has_value = 0
    /\ built[2] = Present(1)
    /\ slots[2] = [value |-> 1, has_value |-> 1]

\* C9: empty() returns has_value = 0 and value = the null pointer, whatever
\* the uninitialised local held; every object constructed empty holds them.
C9_EmptyIsZero ==
    /\ last.op = "empty" => last.ret = <<[value |-> NULL, has_value |-> 0]>>
    /\ \A s \in DOMAIN slots :
         built[s].st = "Empty" => slots[s] = [value |-> NULL, has_value |-> 0]

C9_Witness ==
    /\ last.op = "empty"
    /\ slots[last.slot] = [value |-> NULL, has_value |-> 0]
    /\ \E t \in DOMAIN slots : slots[t].value # NULL

\* C10: every constructed object has has_value in {0, 1}, is_empty of it is
\* 1 for has_value 0 and 0 for has_value 1, so is_empty + has_value = 1.
C10_FlagIsBoolean ==
    /\ \A s \in DOMAIN slots :
         /\ slots[s].has_value \in {0, 1}
         /\ optional_generic_is_empty(slots[s]) = (IF slots[s].has_value = 0 THEN 1 ELSE 0)
         /\ optional_generic_is_empty(slots[s]) + slots[s].has_value = 1
    /\ last.op = "is_empty"
         => (last.ret[1] \in {0, 1} /\ last.ret[1] + slots[last.slot].has_value = 1)

C10_Witness ==
    /\ last.op = "is_empty"
    /\ last.ret = <<1>>
    /\ slots[last.slot].has_value = 0
    /\ \E t \in DOMAIN slots : slots[t].has_value = 1

====
